---------------------------- MODULE Spec2Model ----------------------------
(***************************************************************************)
(* Model of app/main.py: an RTSP recording service.  A request callback    *)
(* builds a connection URL, queues an ffmpeg job on a ThreadPoolExecutor   *)
(* of MAX_WORKERS threads and acknowledges at once; each job runs ffmpeg,  *)
(* reads and removes the produced file and sends it to the FILE_UPLOAD     *)
(* requester.                                                              *)
(*                                                                         *)
(* Strings are sequences of one-character strings, so that the URL         *)
(* functions are computed character by character as urllib.parse does.     *)
(***************************************************************************)
EXTENDS Integers, Sequences, FiniteSets, TLC

\* app/main.py line 16
MAX_WORKERS == 5

--------------------------------------------------------------------------
(* Strings *)

\* The result of a call: a value, Python's None, or a raised exception.
Ok(v) == [exc |-> "", none |-> FALSE, val |-> v]

None == [exc |-> "", none |-> TRUE, val |-> <<>>]

Raise(kind) == [exc |-> kind, none |-> FALSE, val |-> <<>>]

IsRaise(r) == r.exc # ""

Digits == <<"0", "1", "2", "3", "4", "5", "6", "7", "8", "9">>

DigitSet == {Digits[i] : i \in 1..10}

LowerLetters ==
    <<"a", "b", "c", "d", "e", "f", "g", "h", "i", "j", "k", "l", "m",
      "n", "o", "p", "q", "r", "s", "t", "u", "v", "w", "x", "y", "z">>

UpperLetters ==
    <<"A", "B", "C", "D", "E", "F", "G", "H", "I", "J", "K", "L", "M",
      "N", "O", "P", "Q", "R", "S", "T", "U", "V", "W", "X", "Y", "Z">>

LowerSet == {LowerLetters[i] : i \in 1..26}

UpperSet == {UpperLetters[i] : i \in 1..26}

\* str.lower() and str.upper() of one character
LowerChar(c) ==
    IF c \in UpperSet THEN LowerLetters[CHOOSE i \in 1..26 : UpperLetters[i] = c] ELSE c

UpperChar(c) ==
    IF c \in LowerSet THEN UpperLetters[CHOOSE i \in 1..26 : LowerLetters[i] = c] ELSE c

Lower(s) == [i \in 1..Len(s) |-> LowerChar(s[i])]

\* s[i:] and s[:i] with Python's 0-based slice bounds
From(s, i) == SubSeq(s, i + 1, Len(s))

Upto(s, i) == SubSeq(s, 1, IF i > Len(s) THEN Len(s) ELSE i)

StartsWith(s, p) == Len(s) >= Len(p) /\ SubSeq(s, 1, Len(p)) = p

\* s.find(p, start): 0-based index of the first occurrence at or after start, -1 if none
RECURSIVE FindFrom(_, _, _)
FindFrom(s, p, start) ==
    IF start + Len(p) > Len(s) THEN -1
    ELSE IF SubSeq(s, start + 1, start + Len(p)) = p THEN start
    ELSE FindFrom(s, p, start + 1)

Find(s, p) == FindFrom(s, p, 0)

\* s.rfind(p)
RECURSIVE RFindFrom(_, _, _)
RFindFrom(s, p, start) ==
    IF start < 0 THEN -1
    ELSE IF start + Len(p) <= Len(s) /\ SubSeq(s, start + 1, start + Len(p)) = p THEN start
    ELSE RFindFrom(s, p, start - 1)

RFind(s, p) == RFindFrom(s, p, Len(s) - Len(p))

\* s.partition(p): <<head, sep, tail>>, from the index i of p in s
PartitionAt(s, p, i) ==
    IF i < 0 THEN <<s, <<>>, <<>>>>
    ELSE <<Upto(s, i), p, From(s, i + Len(p))>>

Partition(s, p) == PartitionAt(s, p, Find(s, p))

\* s.rpartition(p)
RPartitionAt(s, p, i) ==
    IF i < 0 THEN <<(<<>>), <<>>, s>>
    ELSE <<Upto(s, i), p, From(s, i + Len(p))>>

RPartition(s, p) == RPartitionAt(s, p, RFind(s, p))

\* s.split(p): the sequence of pieces
RECURSIVE Split(_, _)
SplitAt(s, p, i) ==
    IF i < 0 THEN <<s>>
    ELSE <<Upto(s, i)>> \o Split(From(s, i + Len(p)), p)

Split(s, p) == SplitAt(s, p, Find(s, p))

\* s.split(p, 1)
Split1At(s, p, i) ==
    IF i < 0 THEN <<s>> ELSE <<Upto(s, i), From(s, i + Len(p))>>

Split1(s, p) == Split1At(s, p, Find(s, p))

\* s.replace(old, new)
RECURSIVE Replace(_, _, _)
ReplaceAt(s, old, new, i) ==
    IF i < 0 THEN s
    ELSE Upto(s, i) \o new \o Replace(From(s, i + Len(old)), old, new)

Replace(s, old, new) == ReplaceAt(s, old, new, Find(s, old))

\* s.lstrip(chars)
RECURSIVE LStrip(_, _)
LStrip(s, chars) ==
    IF s # <<>> /\ Head(s) \in chars THEN LStrip(Tail(s), chars) ELSE s

\* sep.join(parts)
RECURSIVE Join(_, _)
Join(parts, sep) ==
    IF parts = <<>> THEN <<>>
    ELSE IF Len(parts) = 1 THEN parts[1]
    ELSE parts[1] \o sep \o Join(Tail(parts), sep)

\* str(n) for n >= 0
RECURSIVE IntToStr(_)
IntToStr(n) ==
    IF n < 10 THEN <<Digits[n + 1]>>
    ELSE IntToStr(n \div 10) \o <<Digits[(n % 10) + 1]>>

DigitValue(c) == CHOOSE d \in 0..9 : Digits[d + 1] = c

\* int(s) for a string of digits
RECURSIVE StrToInt(_)
StrToInt(s) ==
    IF s = <<>> THEN 0
    ELSE 10 * StrToInt(SubSeq(s, 1, Len(s) - 1)) + DigitValue(s[Len(s)])

IsDigits(s) == s # <<>> /\ \A i \in 1..Len(s) : s[i] \in DigitSet

--------------------------------------------------------------------------
(* urllib.parse *)

\* Characters quote_plus leaves alone: letters, digits and "_.-~".
SafeChars == LowerSet \cup UpperSet \cup DigitSet \cup {"_", ".", "-", "~"}

\* The printable ASCII characters, from 0x20 (space) to 0x7E; the double
\* quote, the backslash and the backtick are written by name.
Ascii ==
    <<" ", "!", "dquote", "#", "$", "%", "&", "'", "(", ")", "*", "+", ",", "-", ".", "/",
      "0", "1", "2", "3", "4", "5", "6", "7", "8", "9", ":", ";", "<", "=", ">", "?",
      "@", "A", "B", "C", "D", "E", "F", "G", "H", "I", "J", "K", "L", "M", "N", "O",
      "P", "Q", "R", "S", "T", "U", "V", "W", "X", "Y", "Z", "[", "backslash", "]", "^", "_",
      "backtick", "a", "b", "c", "d", "e", "f", "g", "h", "i", "j", "k", "l", "m", "n", "o",
      "p", "q", "r", "s", "t", "u", "v", "w", "x", "y", "z", "{", "|", "}", "~">>

\* ord(c)
Ord(c) == 31 + CHOOSE i \in 1..Len(Ascii) : Ascii[i] = c

HexDigits == <<"0", "1", "2", "3", "4", "5", "6", "7", "8", "9", "A", "B", "C", "D", "E", "F">>

HexSet == {HexDigits[i] : i \in 1..16}

HexValue(c) == CHOOSE d \in 0..15 : HexDigits[d + 1] = c

\* The %XX code of a character
PercentCode(c) == <<"%", HexDigits[(Ord(c) \div 16) + 1], HexDigits[(Ord(c) % 16) + 1]>>

\* quote_plus(s): a space becomes "+", an unsafe character its %XX code
RECURSIVE quote_plus(_)
quote_plus(s) ==
    IF s = <<>> THEN <<>>
    ELSE (IF Head(s) \in SafeChars THEN <<Head(s)>>
          ELSE IF Head(s) = " " THEN <<"+">>
          ELSE PercentCode(Head(s))) \o quote_plus(Tail(s))

\* urlencode(mapping): quote_plus(k)=quote_plus(v) joined by "&", in the
\* order the mapping presents its items (a sequence of <<key, value>>).
urlencode(params) ==
    Join([i \in 1..Len(params) |->
            quote_plus(params[i][1]) \o <<"=">> \o quote_plus(params[i][2])], <<"&">>)

\* The value of the two hexadecimal digits a and b (either case), -1 if
\* one of them is no hexadecimal digit
HexPair(a, b) ==
    IF a \in HexSet /\ b \in HexSet THEN 16 * HexValue(a) + HexValue(b) ELSE -1

\* unquote(s): every %XX naming a printable character is decoded, anything
\* else is kept as it is
RECURSIVE unquote(_)
unquote_code(s, code) ==
    IF code \in 32..126 THEN <<Ascii[code - 31]>> \o unquote(From(s, 3))
    ELSE <<Head(s)>> \o unquote(Tail(s))

unquote(s) ==
    IF s = <<>> THEN <<>>
    ELSE IF Head(s) = "%" /\ Len(s) >= 3
         THEN unquote_code(s, HexPair(UpperChar(s[2]), UpperChar(s[3])))
         ELSE <<Head(s)>> \o unquote(Tail(s))

\* parse_qsl(qs): the <<name, value>> pairs of a query string; a piece with
\* no "=" or with an empty value is skipped (keep_blank_values=False).
parse_qsl_piece(nv) ==
    IF Len(nv) # 2 THEN <<>>
    ELSE IF Len(nv[2]) = 0 THEN <<>>
    ELSE <<(<<unquote(Replace(nv[1], <<"+">>, <<" ">>)),
              unquote(Replace(nv[2], <<"+">>, <<" ">>))>>)>>

RECURSIVE parse_qsl_pieces(_)
parse_qsl_pieces(pieces) ==
    IF pieces = <<>> THEN <<>>
    ELSE IF Head(pieces) = <<>> THEN parse_qsl_pieces(Tail(pieces))
    ELSE parse_qsl_piece(Split1(Head(pieces), <<"=">>)) \o parse_qsl_pieces(Tail(pieces))

parse_qsl(qs) == parse_qsl_pieces(Split(qs, <<"&">>))

\* parse_qs(qs).get(name, [None])[0]: the first value of name, or None
QueryFirst(pairs, hits) ==
    IF hits = {} THEN None
    ELSE Ok(pairs[CHOOSE i \in hits : \A k \in hits : i <= k][2])

QueryHits(pairs, name) == QueryFirst(pairs, {i \in 1..Len(pairs) : pairs[i][1] = name})

QueryGet(qs, name) == QueryHits(parse_qsl(qs), name)

SchemeChars == LowerSet \cup UpperSet \cup DigitSet \cup {"+", "-", "."}

\* Schemes of urllib.parse.uses_netloc and uses_params that the model uses
\* (both lists hold "" and "rtsp").
UsesNetloc == {<<>>, <<"r", "t", "s", "p">>, <<"r", "t", "s", "p", "u">>}

UsesParams == {<<>>, <<"r", "t", "s", "p">>, <<"r", "t", "s", "p", "u">>}

\* _splitnetloc(url, 2): the netloc ends at the first of "/", "?", "#"
SplitNetlocAt(url, delim) == <<SubSeq(url, 3, delim), From(url, delim)>>

SplitNetlocIn(url, cands) ==
    SplitNetlocAt(url, CHOOSE i \in cands : \A k \in cands : i <= k)

SplitNetloc(url) ==
    SplitNetlocIn(url, {i \in 2..Len(url) : i = Len(url) \/ url[i + 1] \in {"/", "?", "#"}})

\* urlsplit(url): [scheme, netloc, path, query, fragment], step by step:
\* the query, the fragment, the netloc, the scheme
urlsplit_query(scheme, netloc, q, fragment) ==
    [scheme |-> scheme, netloc |-> netloc, path |-> q[1],
     query |-> IF Len(q) = 2 THEN q[2] ELSE <<>>, fragment |-> fragment]

urlsplit_fragment(scheme, netloc, f) ==
    urlsplit_query(scheme, netloc, Split1(f[1], <<"?">>), IF Len(f) = 2 THEN f[2] ELSE <<>>)

urlsplit_rest(scheme, nu) == urlsplit_fragment(scheme, nu[1], Split1(nu[2], <<"#">>))

urlsplit_netloc(scheme, url) ==
    IF StartsWith(url, <<"/", "/">>)
    THEN urlsplit_rest(scheme, SplitNetloc(url))
    ELSE urlsplit_rest(scheme, <<(<<>>), url>>)

urlsplit_scheme(url, i) ==
    IF /\ i > 0
       /\ url[1] \in LowerSet \cup UpperSet
       /\ \A k \in 1..i : url[k] \in SchemeChars
    THEN urlsplit_netloc(Lower(Upto(url, i)), From(url, i + 1))
    ELSE urlsplit_netloc(<<>>, url)

urlsplit_stripped(url) == urlsplit_scheme(url, Find(url, <<":">>))

urlsplit(url) == urlsplit_stripped(LStrip(url, {" "}))

\* _splitparams(url): the params follow the first ";" of the last segment
SplitParamsAt(url, i) ==
    IF i < 0 THEN <<url, <<>>>> ELSE <<Upto(url, i), From(url, i + 1)>>

SplitParamsFrom(url, slash) ==
    IF slash >= 0 THEN SplitParamsAt(url, FindFrom(url, <<";">>, slash))
    ELSE SplitParamsAt(url, Find(url, <<";">>))

SplitParams(url) == SplitParamsFrom(url, RFind(url, <<"/">>))

\* urlparse(url): [scheme, netloc, path, params, query, fragment]
urlparse_result(sp, pp) ==
    [scheme |-> sp.scheme, netloc |-> sp.netloc, path |-> pp[1],
     params |-> pp[2], query |-> sp.query, fragment |-> sp.fragment]

urlparse_params(sp) ==
    IF sp.scheme \in UsesParams /\ Find(sp.path, <<";">>) >= 0
    THEN urlparse_result(sp, SplitParams(sp.path))
    ELSE urlparse_result(sp, <<sp.path, <<>>>>)

urlparse(url) == urlparse_params(urlsplit(url))

\* urlunsplit(scheme, netloc, url, query, fragment)
urlunsplit_tail(url, query, fragment) ==
    (IF query # <<>> THEN url \o <<"?">> \o query ELSE url)
      \o (IF fragment # <<>> THEN <<"#">> \o fragment ELSE <<>>)

urlunsplit_scheme(scheme, url, query, fragment) ==
    IF scheme # <<>> THEN urlunsplit_tail(scheme \o <<":">> \o url, query, fragment)
    ELSE urlunsplit_tail(url, query, fragment)

urlunsplit(scheme, netloc, url, query, fragment) ==
    IF \/ netloc # <<>>
       \/ (/\ scheme # <<>>
           /\ scheme \in UsesNetloc
           /\ ~StartsWith(url, <<"/", "/">>))
    THEN urlunsplit_scheme(scheme,
             <<"/", "/">> \o netloc
               \o (IF url # <<>> /\ Head(url) # "/" THEN <<"/">> \o url ELSE url),
             query, fragment)
    ELSE urlunsplit_scheme(scheme, url, query, fragment)

\* urlunparse(parts)
urlunparse(p) ==
    urlunsplit(p.scheme, p.netloc,
               IF p.params # <<>> THEN p.path \o <<";">> \o p.params ELSE p.path,
               p.query, p.fragment)

\* ParseResult._hostinfo: <<hostname, port>> of the part after the last "@";
\* a bracketed host ends at its "]" and the brackets are dropped
HostInfoOf(hp) == <<hp[1], IF hp[3] = <<>> THEN None ELSE Ok(hp[3])>>

HostInfoBracketed(hp) == HostInfoOf(<<hp[1], <<>>, Partition(hp[3], <<":">>)[3]>>)

HostInfoSplit(hostinfo, br) ==
    IF br[2] # <<>> THEN HostInfoBracketed(Partition(br[3], <<"]">>))
    ELSE HostInfoOf(Partition(hostinfo, <<":">>))

HostInfoAt(hostinfo) == HostInfoSplit(hostinfo, Partition(hostinfo, <<"[">>))

HostInfo(netloc) == HostInfoAt(RPartition(netloc, <<"@">>)[3])

\* ParseResult.hostname: lower-cased up to a "%" (zone), None when empty
HostnameZone(hz) == Ok(Lower(hz[1]) \o hz[2] \o hz[3])

HostnameOf(h) == IF h = <<>> THEN None ELSE HostnameZone(Partition(h, <<"%">>))

Hostname(netloc) == HostnameOf(HostInfo(netloc)[1])

\* ParseResult.port: an integer, None, or ValueError
PortOf(port) ==
    IF port.none THEN None
    ELSE IF ~IsDigits(port.val) THEN Raise("ValueError")
    ELSE IF StrToInt(port.val) > 65535 THEN Raise("ValueError")
    ELSE Ok(StrToInt(port.val))

Port(netloc) == PortOf(HostInfo(netloc)[2])

--------------------------------------------------------------------------
(* app/main.py: the URL functions *)

\* Python's str(None), as an f-string renders a missing hostname
NoneStr == <<"N", "o", "n", "e">>

\* A variant of transform_url_parts: the track is read one segment early.
transform_url_parts_early(path_parts, starttime, endtime) ==
    IF Len(path_parts) < 4 THEN Raise("ValueError")
    ELSE IF starttime.none \/ starttime.val = <<>>
              \/ endtime.none \/ endtime.val = <<>> THEN Raise("ValueError")
    ELSE Ok(path_parts[3] \o <<"/">> \o starttime.val \o <<"_">> \o endtime.val
              \o <<".", "m", "k", "v">>)

\* transform_url, lines 27-38: the name from the path segments and the times
transform_url_parts(path_parts, starttime, endtime) ==
    IF Len(path_parts) < 4 THEN Raise("ValueError")
    ELSE IF starttime.none \/ starttime.val = <<>>
              \/ endtime.none \/ endtime.val = <<>> THEN Raise("ValueError")
    ELSE Ok(path_parts[4] \o <<"/">> \o starttime.val \o <<"_">> \o endtime.val
              \o <<".", "m", "k", "v">>)

\* transform_url, lines 26-33
transform_url_parsed(parsed_url) ==
    transform_url_parts(
        Split(parsed_url.path, <<"/">>),
        QueryGet(parsed_url.query, <<"s", "t", "a", "r", "t", "t", "i", "m", "e">>),
        QueryGet(parsed_url.query, <<"e", "n", "d", "t", "i", "m", "e">>))

\* transform_url(url): {track}/{starttime}_{endtime}.mkv, or ValueError
transform_url(url) ==
    transform_url_parsed(urlparse(Replace(url, <<"&", "a", "m", "p", ";">>, <<"&">>)))

\* insert_credentials, lines 46-50: the new netloc and the rebuilt URL
insert_credentials_netloc(parsed, netloc, port) ==
    IF IsRaise(port) THEN Raise(port.exc)
    ELSE IF ~port.none /\ port.val # 0
    THEN Ok(urlunparse([parsed EXCEPT !.netloc = netloc \o <<":">> \o IntToStr(port.val)]))
    ELSE Ok(urlunparse([parsed EXCEPT !.netloc = netloc]))

\* f"{parsed.hostname}"
FormatHostname(hostname) == IF hostname.none THEN NoneStr ELSE hostname.val

insert_credentials_parsed(parsed, username, password) ==
    insert_credentials_netloc(
        parsed,
        username \o <<":">> \o password \o <<"@">>
          \o FormatHostname(Hostname(parsed.netloc)),
        Port(parsed.netloc))

\* insert_credentials(url, username, password), or the ValueError of parsed.port
insert_credentials(url, username, password) ==
    insert_credentials_parsed(urlparse(url), username, password)

\* A variant of build_url: the path is taken as it is given.
build_url_as_given(endpoint) ==
    urlunparse([scheme |-> endpoint.protocol,
                netloc |-> IF endpoint.port # 0
                           THEN endpoint.host \o <<":">> \o IntToStr(endpoint.port)
                           ELSE endpoint.host,
                path |-> endpoint.path,
                params |-> <<>>,
                query |-> IF endpoint.query_params # <<>>
                          THEN urlencode(endpoint.query_params) ELSE <<>>,
                fragment |-> <<>>])

\* build_url(endpoint)
build_url(endpoint) ==
    urlunparse([scheme |-> endpoint.protocol,
                netloc |-> IF endpoint.port # 0
                           THEN endpoint.host \o <<":">> \o IntToStr(endpoint.port)
                           ELSE endpoint.host,
                path |-> IF StartsWith(endpoint.path, <<"/">>)
                         THEN endpoint.path ELSE <<"/">> \o endpoint.path,
                params |-> <<>>,
                query |-> IF endpoint.query_params # <<>>
                          THEN urlencode(endpoint.query_params) ELSE <<>>,
                fragment |-> <<>>])

--------------------------------------------------------------------------
(* Requests *)

Str_rtsp == <<"r", "t", "s", "p">>

Str_cam == <<"c", "a", "m">>

Str_track_path == <<"a", "/", "b", "/", "T", "4", "2">>

Str_starttime == <<"s", "t", "a", "r", "t", "t", "i", "m", "e">>

Str_endtime == <<"e", "n", "d", "t", "i", "m", "e">>

TimeRange == << <<Str_starttime, <<"1">>>>, <<Str_endtime, <<"2">>>> >>

Creds(u, p) == Ok([username |-> u, password |-> p])

NoCreds == [exc |-> "", none |-> TRUE, val |-> [username |-> <<>>, password |-> <<>>]]

RTSPRequest(id, protocol, host, port, path, query_params, basic, digest) ==
    [header |-> [entity_path |-> <<"r">> \o id],
     endpoint |-> [protocol |-> protocol, host |-> host, port |-> port,
                   path |-> path, query_params |-> query_params],
     basic_auth |-> basic, digest_auth |-> digest]

\* A well-formed request whose URL names a track and a time range.
MsgGood ==
    RTSPRequest(<<"1">>, Str_rtsp, Str_cam, 554, Str_track_path, TimeRange,
                Creds(<<"u">>, <<"p">>), NoCreds)

\* A second well-formed request, of another track and time range.
MsgOther ==
    RTSPRequest(<<"2">>, Str_rtsp, Str_cam, 554, <<"a", "/", "b", "/", "T", "7">>,
                << <<Str_starttime, <<"3">>>>, <<Str_endtime, <<"4">>>> >>,
                NoCreds, NoCreds)

\* A well-formed request whose path has a single segment and no query.
MsgStream ==
    RTSPRequest(<<"3">>, Str_rtsp, Str_cam, 554, <<"s", "t", "r", "e", "a", "m", "1">>, <<>>,
                Creds(<<"u">>, <<"p">>), NoCreds)

\* A well-formed request whose query has no endtime.
MsgNoEnd ==
    RTSPRequest(<<"4">>, Str_rtsp, Str_cam, 554, Str_track_path,
                << <<Str_starttime, <<"1">>>> >>, NoCreds, Creds(<<"u">>, <<"p">>))

\* Malformed endpoints: an empty host, a port out of range.
MsgNoHost ==
    RTSPRequest(<<"5">>, Str_rtsp, <<>>, 0, Str_track_path, TimeRange, NoCreds, NoCreds)

MsgBadPort ==
    RTSPRequest(<<"7">>, Str_rtsp, Str_cam, 70000, Str_track_path, TimeRange,
                Creds(<<"u">>, <<"p">>), NoCreds)

WellFormed == {MsgGood, MsgStream, MsgNoEnd}

Malformed == {MsgNoHost, MsgBadPort}

Messages == WellFormed \cup Malformed

Outcomes == {"exit0", "nonzero", "partial", "launch"}

\* What a recording writes, and what a failed one leaves in a partial file.
Contents == {<<"x", "y">>}

PartialData == <<"x">>

PoolMessages == {MsgGood}

PoolOutcomes == {"exit0"}

\* Two different requests, recordings that differ, success and failure.
MixMessages == {MsgGood, MsgOther}

MixOutcomes == {"exit0", "nonzero"}

MixContents == {<<"x", "y">>, <<"z">>}

AllMessages == Messages \cup PoolMessages \cup MixMessages

--------------------------------------------------------------------------
(* app/main.py: the service *)

\* Model bounds: the number of requests delivered in the general and in the
\* saturated-pool specification.
MaxJobs == 2

MaxPoolJobs == 6

MaxMixJobs == 2

VARIABLES
    jobs,     \* one record per delivered request, in delivery order
    queue,    \* the executor's work queue: indices into jobs, oldest first
    fs,       \* the working directory: a set of [path, data] files
    req,      \* the request thread: "idle", or inside callback after submit
    calc      \* one application of the URL functions: inputs, position, results

vars == <<jobs, queue, fs, req, calc>>

\* make87.header_from_message(Header, message, append_entity_path=tag)
header_from_message(message, tag) ==
    [entity_path |-> message.header.entity_path \o <<"/">> \o tag]

\* A variant of uuid4: every call returns the same token.
uuid4_same(n) == <<"u", "u", "i", "d", "-">> \o IntToStr(n - n)

\* str(uuid.uuid4()) of the n-th call: a token no other call returns
uuid4(n) == <<"u", "u", "i", "d", "-">> \o IntToStr(n)

Exists(path) == \E f \in fs : f.path = path

FileData(path) == (CHOOSE f \in fs : f.path = path).data

\* The jobs that hold a worker thread: from the moment a thread takes the
\* work item to the moment ffmpeg_thread returns or raises.
WorkerPcs == {"run", "open", "remove", "upload", "request"}

Busy == {j \in 1..Len(jobs) : jobs[j].pc \in WorkerPcs}

\* callback, lines 121-129: the URL of a request, or the exception raised
callback_url(message) ==
    LET url0 == build_url(message.endpoint)
    IN  IF ~message.basic_auth.none
        THEN insert_credentials(url0, message.basic_auth.val.username,
                                message.basic_auth.val.password)
        ELSE IF ~message.digest_auth.none
        THEN insert_credentials(url0, message.digest_auth.val.username,
                                message.digest_auth.val.password)
        ELSE Ok(url0)

\* callback_url and transform_url, computed once for every request of the model
UrlOf == [m \in AllMessages |-> callback_url(m)]

NameOf == [u \in {UrlOf[m].val : m \in AllMessages} |-> transform_url(u)]

\* A variant of callback_submit: a request that finds every worker busy is
\* turned away instead of queued.
callback_submit_rejects(message) ==
    LET n == Len(jobs) + 1
        url == UrlOf[message]
        new == [pc |-> "queued", message |-> message, url |-> url.val,
                output_file |-> uuid4(n) \o <<".", "m", "k", "v">>, file_bytes |-> None,
                exit |-> "", wrote |-> None, exc |-> "", passed |-> FALSE,
                ack |-> <<>>, sent |-> <<>>]
    IN  /\ req = "idle"
        /\ IF IsRaise(url) \/ Cardinality(Busy) >= MAX_WORKERS
           THEN /\ jobs' = Append(jobs, [new EXCEPT !.pc = "refused", !.exc = url.exc])
                /\ UNCHANGED <<queue, req>>
           ELSE /\ jobs' = Append(jobs, new)
                /\ queue' = Append(queue, n)
                /\ req' = "return"
        /\ UNCHANGED fs

\* callback, lines 121-135: build the URL, insert the credentials, name the
\* output file and submit the job.  An exception of insert_credentials leaves
\* callback before anything is submitted or returned.
callback_submit(message) ==
    LET n == Len(jobs) + 1
        url == UrlOf[message]
        output_file == uuid4(n) \o <<".", "m", "k", "v">>
        new == [pc |-> "queued", message |-> message, url |-> url.val,
                output_file |-> output_file, file_bytes |-> None,
                exit |-> "", wrote |-> None, exc |-> "", passed |-> FALSE,
                ack |-> <<>>, sent |-> <<>>]
    IN  /\ req = "idle"
        /\ IF IsRaise(url)
           THEN /\ jobs' = Append(jobs, [new EXCEPT !.pc = "refused", !.exc = url.exc])
                /\ UNCHANGED <<queue, req>>
           ELSE /\ jobs' = Append(jobs, new)
                /\ queue' = Append(queue, n)
                /\ req' = "return"
        /\ UNCHANGED fs

\* A variant of callback_return: callback waits for the job's future first.
callback_return_waits ==
    /\ req = "return"
    /\ jobs[Len(jobs)].pc \in {"done", "raised"}
    /\ jobs' = [jobs EXCEPT ![Len(jobs)].ack =
                    Append(@, [header |-> header_from_message(jobs[Len(jobs)].message,
                                                              <<"success">>),
                               value |-> TRUE])]
    /\ req' = "idle"
    /\ UNCHANGED <<queue, fs>>

\* callback, lines 138-141: return Bool(value=True) for the request just submitted
callback_return ==
    LET n == Len(jobs)
        bool == [header |-> header_from_message(jobs[n].message, <<"success">>),
                 value |-> TRUE]
    IN  /\ req = "return"
        /\ jobs' = [jobs EXCEPT ![n].ack = Append(@, bool)]
        /\ req' = "idle"
        /\ UNCHANGED <<queue, fs>>

\* A variant of worker_start: every submitted job gets a thread of its own.
worker_start_uncapped(j) ==
    /\ queue # <<>>
    /\ j = Head(queue)
    /\ queue' = Tail(queue)
    /\ jobs' = [jobs EXCEPT ![j].pc = "run"]
    /\ UNCHANGED <<fs, req>>

\* A variant of worker_start: a thread takes the newest queued work item.
worker_start_lifo(j) ==
    /\ queue # <<>>
    /\ j = queue[Len(queue)]
    /\ Cardinality(Busy) < MAX_WORKERS
    /\ queue' = SubSeq(queue, 1, Len(queue) - 1)
    /\ jobs' = [jobs EXCEPT ![j].pc = "run"]
    /\ UNCHANGED <<fs, req>>

\* ThreadPoolExecutor(max_workers=MAX_WORKERS), line 109: a thread takes the
\* oldest queued work item when fewer than MAX_WORKERS threads are running one
worker_start(j) ==
    /\ queue # <<>>
    /\ j = Head(queue)
    /\ Cardinality(Busy) < MAX_WORKERS
    /\ queue' = Tail(queue)
    /\ jobs' = [jobs EXCEPT ![j].pc = "run"]
    /\ UNCHANGED <<fs, req>>

\* ffmpeg_thread, lines 82-84 and 87-90: subprocess.run(command, check=True)
\* ends.  outcome "exit0": the process wrote data to output_file;
\* "nonzero": CalledProcessError, caught, file_bytes = None, the process
\* left nothing; "partial": the same, but it left a partial file;
\* "launch": the process could not be started, OSError, which no handler
\* of ffmpeg_thread catches.
subprocess_run(j, outcome, data) ==
    LET path == jobs[j].output_file
        others == {f \in fs : f.path # path}
    IN  /\ jobs[j].pc = "run"
        /\ CASE outcome = "exit0" ->
                  /\ fs' = others \cup {[path |-> path, data |-> data]}
                  /\ jobs' = [jobs EXCEPT ![j].pc = "open", ![j].exit = outcome,
                                          ![j].wrote = Ok(data)]
             [] outcome = "nonzero" ->
                  /\ fs' = fs
                  /\ jobs' = [jobs EXCEPT ![j].pc = "upload", ![j].exit = outcome,
                                          ![j].file_bytes = None]
             [] outcome = "partial" ->
                  /\ fs' = others \cup {[path |-> path, data |-> data]}
                  /\ jobs' = [jobs EXCEPT ![j].pc = "upload", ![j].exit = outcome,
                                          ![j].wrote = Ok(data), ![j].file_bytes = None]
             [] outcome = "launch" ->
                  /\ fs' = fs
                  /\ jobs' = [jobs EXCEPT ![j].pc = "raised", ![j].exit = outcome,
                                          ![j].exc = "OSError"]
        /\ UNCHANGED <<queue, req>>

\* ffmpeg_thread, lines 85-86: open(output_file, "rb") and f.read(); a missing
\* file raises FileNotFoundError, which is not a CalledProcessError
open_read(j) ==
    /\ jobs[j].pc = "open"
    /\ IF Exists(jobs[j].output_file)
       THEN jobs' = [jobs EXCEPT ![j].pc = "remove",
                                 ![j].file_bytes = Ok(FileData(jobs[j].output_file))]
       ELSE jobs' = [jobs EXCEPT ![j].pc = "raised", ![j].exc = "FileNotFoundError"]
    /\ UNCHANGED <<queue, fs, req>>

\* A variant of os_remove: the FileNotFoundError is not handled.
os_remove_strict(j) ==
    /\ jobs[j].pc = "remove"
    /\ fs' = {f \in fs : f.path # jobs[j].output_file}
    /\ IF Exists(jobs[j].output_file)
       THEN jobs' = [jobs EXCEPT ![j].pc = "upload"]
       ELSE jobs' = [jobs EXCEPT ![j].pc = "raised", ![j].exc = "FileNotFoundError"]
    /\ UNCHANGED <<queue, req>>

\* ffmpeg_thread, lines 91-95: os.remove(output_file); a missing file raises
\* FileNotFoundError, which is passed over (passed records that branch)
os_remove(j) ==
    /\ jobs[j].pc = "remove"
    /\ fs' = {f \in fs : f.path # jobs[j].output_file}
    /\ jobs' = [jobs EXCEPT ![j].pc = "upload",
                            ![j].passed = ~Exists(jobs[j].output_file)]
    /\ UNCHANGED <<queue, req>>

\* A variant of upload: the message is built from what the latest request
\* left behind, not from the arguments of this job.
upload_shared(j) ==
    LET n == Len(jobs)
        path == NameOf[jobs[n].url]
        upload_file == [header |-> header_from_message(jobs[n].message, <<"upload">>),
                        data |-> IF jobs[j].file_bytes.none THEN <<>>
                                 ELSE jobs[j].file_bytes.val,
                        path |-> path.val]
    IN  /\ jobs[j].pc = "upload"
        /\ IF IsRaise(path)
           THEN jobs' = [jobs EXCEPT ![j].pc = "raised", ![j].exc = path.exc]
           ELSE jobs' = [jobs EXCEPT ![j].pc = "request", ![j].sent = Append(@, upload_file)]
        /\ UNCHANGED <<queue, fs, req>>

\* ffmpeg_thread, lines 97-102: build the RelativePathFile (transform_url may
\* raise ValueError, which ends the job) and hand it to the FILE_UPLOAD
\* requester; data=None leaves the bytes field empty
upload(j) ==
    LET path == NameOf[jobs[j].url]
        upload_file == [header |-> header_from_message(jobs[j].message, <<"upload">>),
                        data |-> IF jobs[j].file_bytes.none THEN <<>>
                                 ELSE jobs[j].file_bytes.val,
                        path |-> path.val]
    IN  /\ jobs[j].pc = "upload"
        /\ IF IsRaise(path)
           THEN jobs' = [jobs EXCEPT ![j].pc = "raised", ![j].exc = path.exc]
           ELSE jobs' = [jobs EXCEPT ![j].pc = "request", ![j].sent = Append(@, upload_file)]
        /\ UNCHANGED <<queue, fs, req>>

\* ffmpeg_thread, line 102: file_release_endpoint.request(upload_file) returns
\* (the FILE_UPLOAD provider answered, or the requester gave up); the worker
\* thread is free again
request_return(j) ==
    /\ jobs[j].pc = "request"
    /\ jobs' = [jobs EXCEPT ![j].pc = "done"]
    /\ UNCHANGED <<queue, fs, req>>

\* Something outside the service deletes a file of the working directory
\* (the case lines 94-95 provide for).
external_remove(path) ==
    /\ Exists(path)
    /\ fs' = {f \in fs : f.path # path}
    /\ UNCHANGED <<jobs, queue, req>>

--------------------------------------------------------------------------
(* The URL functions applied to endpoints and URLs of their own *)

Str_RTSP == <<"R", "T", "S", "P">>

UrlProtocols == {Str_rtsp, Str_RTSP}

\* Hosts: a name, a name with a capital, none, an IPv6 literal.
UrlHosts == {Str_cam, <<"C", "a", "m">>, <<>>, <<"[", ":", ":", "1", "]">>}

UrlPorts == {0, 554}

\* Paths as their segments; the endpoint's path joins them with "/".
UrlSegments ==
    {<<<<"a">>, <<"b">>, <<"T", "4", "2">>>>,
     <<<<"a">>, <<"b">>, <<>>>>,
     <<<<"a">>, <<"b">>, <<"T", "4", "2">>, <<"x">>>>,
     <<<<"s", "t", "r", "e", "a", "m", "1">>>>,
     <<>>}

\* Query parameters: none, both times, no endtime, times that need encoding.
UrlQueries ==
    {<<>>,
     TimeRange,
     << <<Str_starttime, <<"1">>>> >>,
     << <<Str_starttime, <<"1", " ", "2">>>>, <<Str_endtime, <<"3", ":", "4">>>> >>}

\* Credentials: plain ones, and passwords with characters reserved in URLs.
UrlCredentials ==
    {<<<<"u">>, <<"p">>>>, <<<<"u">>, <<"p", "/", "w">>>>, <<<<"u">>, <<"p", "#", "1">>>>}

PlainCredentials == {<<<<"u">>, <<"p">>>>}

Endpoint(protocol, host, port, path, query_params) ==
    [protocol |-> protocol, host |-> host, port |-> port,
     path |-> path, query_params |-> query_params]

NoEndpoint == Endpoint(<<>>, <<>>, 0, <<>>, <<>>)

\* URLs that did not come from build_url, with the segments and the query
\* parameters they were written from.
RawUrls ==
    {[url |-> <<"R", "T", "S", "P", ":", "/", "/", "C", "a", "m", ":", "5", "5", "4",
                "/", "a", "/", "b", "/", "T", "4", "2", "?",
                "s", "t", "a", "r", "t", "t", "i", "m", "e", "=", "1", "&",
                "e", "n", "d", "t", "i", "m", "e", "=", "2">>,
      segments |-> <<<<"a">>, <<"b">>, <<"T", "4", "2">>>>, times |-> TimeRange],
     [url |-> <<"r", "t", "s", "p", ":", "/", "/", "c", "a", "m",
                "/", "a", "/", "b", "/", "T", "4", "2", "?",
                "s", "t", "a", "r", "t", "t", "i", "m", "e", "=", "1", "&", "a", "m", "p", ";",
                "e", "n", "d", "t", "i", "m", "e", "=", "2">>,
      segments |-> <<<<"a">>, <<"b">>, <<"T", "4", "2">>>>, times |-> TimeRange],
     [url |-> <<"r", "t", "s", "p", ":", "/", "/", "c", "a", "m", "/", "a", "/", "b">>,
      segments |-> <<<<"a">>, <<"b">>>>, times |-> <<>>]}

Calc(pc, endpoint, segments, times, credentials, url) ==
    [pc |-> pc, endpoint |-> endpoint, segments |-> segments, times |-> times,
     username |-> credentials[1], password |-> credentials[2],
     url |-> url, built |-> FALSE, result |-> None, name |-> None]

\* The service's specifications make no use of calc.
NoCalc == Calc("off", NoEndpoint, <<>>, <<>>, <<<<>>, <<>>>>, <<>>)

\* url = build_url(endpoint), line 121
calc_build_url ==
    /\ calc.pc = "endpoint"
    /\ calc' = [calc EXCEPT !.pc = "url", !.url = build_url(calc.endpoint),
                            !.built = TRUE]
    /\ UNCHANGED <<jobs, queue, fs, req>>

\* url = insert_credentials(url, username, password), lines 125 and 129
calc_insert_credentials ==
    /\ calc.pc = "url"
    /\ calc' = [calc EXCEPT !.pc = "inserted",
                            !.result = insert_credentials(calc.url, calc.username,
                                                          calc.password)]
    /\ UNCHANGED <<jobs, queue, fs, req>>

\* path=transform_url(url), line 100
calc_transform_url ==
    /\ calc.pc = "url"
    /\ calc' = [calc EXCEPT !.pc = "named", !.name = transform_url(calc.url)]
    /\ UNCHANGED <<jobs, queue, fs, req>>

--------------------------------------------------------------------------
(* Specifications *)

Init ==
    /\ jobs = <<>>
    /\ queue = <<>>
    /\ fs = {}
    /\ req = "idle"
    /\ calc = NoCalc

Deliver ==
    /\ Len(jobs) < MaxJobs
    /\ \E m \in Messages : callback_submit(m)
    /\ UNCHANGED calc

Return == callback_return /\ UNCHANGED calc

Start == (\E j \in 1..Len(jobs) : worker_start(j)) /\ UNCHANGED calc

Run ==
    /\ \E j \in 1..Len(jobs), o \in Outcomes, d \in Contents :
          subprocess_run(j, o, IF o = "exit0" THEN d ELSE PartialData)
    /\ UNCHANGED calc

Read == (\E j \in 1..Len(jobs) : open_read(j)) /\ UNCHANGED calc

Remove == (\E j \in 1..Len(jobs) : os_remove(j)) /\ UNCHANGED calc

Upload == (\E j \in 1..Len(jobs) : upload(j)) /\ UNCHANGED calc

Answer == (\E j \in 1..Len(jobs) : request_return(j)) /\ UNCHANGED calc

ExternalRemove == (\E f \in fs : external_remove(f.path)) /\ UNCHANGED calc

Next ==
    \/ Deliver
    \/ Return
    \/ Start
    \/ Run
    \/ Read
    \/ Remove
    \/ Upload
    \/ Answer
    \/ ExternalRemove

Spec == Init /\ [][Next]_vars

\* The saturated pool: more requests than worker threads, one kind of request.
PoolDeliver ==
    /\ Len(jobs) < MaxPoolJobs
    /\ \E m \in PoolMessages : callback_submit(m)
    /\ UNCHANGED calc

PoolRun ==
    /\ \E j \in 1..Len(jobs), o \in PoolOutcomes, d \in Contents : subprocess_run(j, o, d)
    /\ UNCHANGED calc

PoolNext ==
    \/ PoolDeliver
    \/ Return
    \/ Start
    \/ PoolRun
    \/ Read
    \/ Remove
    \/ Upload
    \/ Answer

PoolSpec == Init /\ [][PoolNext]_vars

\* Concurrent jobs of different requests whose recordings differ.
MixDeliver ==
    /\ Len(jobs) < MaxMixJobs
    /\ \E m \in MixMessages : callback_submit(m)
    /\ UNCHANGED calc

MixRun ==
    /\ \E j \in 1..Len(jobs), o \in MixOutcomes, d \in MixContents : subprocess_run(j, o, d)
    /\ UNCHANGED calc

MixNext ==
    \/ MixDeliver
    \/ Return
    \/ Start
    \/ MixRun
    \/ Read
    \/ Remove
    \/ Upload
    \/ Answer
    \/ ExternalRemove

MixSpec == Init /\ [][MixNext]_vars

\* The URL functions on their own: the inputs are drawn in the initial state.
UrlInit ==
    /\ jobs = <<>>
    /\ queue = <<>>
    /\ fs = {}
    /\ req = "idle"
    /\ \/ \E protocol \in UrlProtocols, host \in UrlHosts, port \in UrlPorts,
             segments \in UrlSegments, slash \in BOOLEAN,
             query_params \in UrlQueries, credentials \in UrlCredentials :
             calc = Calc("endpoint",
                         Endpoint(protocol, host, port,
                                  (IF slash THEN <<"/">> ELSE <<>>)
                                    \o Join(segments, <<"/">>),
                                  query_params),
                         segments, query_params, credentials, <<>>)
       \/ \E raw \in RawUrls, credentials \in UrlCredentials :
             calc = Calc("url", NoEndpoint, raw.segments, raw.times, credentials, raw.url)

UrlBuild == calc_build_url

UrlInsert == calc_insert_credentials

UrlName == calc_transform_url

UrlNext ==
    \/ UrlBuild
    \/ UrlInsert
    \/ UrlName

UrlSpec == UrlInit /\ [][UrlNext]_vars

--------------------------------------------------------------------------
(* Properties *)

Delivered == 1..Len(jobs)

Terminated == {"done", "raised"}

Queued == {queue[i] : i \in 1..Len(queue)}

\* callback has returned or raised for request j
Answered(j) == j < Len(jobs) \/ req = "idle"

\* The URL of job j has no track or no time range: transform_url raises.
Unnameable(j) == IsRaise(NameOf[jobs[j].url])

FailedRecording == {"nonzero", "partial", "launch"}

\* C1: at no time do more than MAX_WORKERS recording processes run, nor
\* more than MAX_WORKERS jobs hold a worker; a job that holds no worker
\* and has not ended waits in the queue.
C1_AtMostMaxWorkers ==
    /\ Cardinality({j \in Delivered : jobs[j].pc = "run"}) <= MAX_WORKERS
    /\ Cardinality({j \in Delivered :
                      jobs[j].pc \in {"run", "open", "remove", "upload", "request"}})
         <= MAX_WORKERS
    /\ \A j \in Delivered : jobs[j].pc = "queued" <=> j \in Queued

\* C1 witness: MAX_WORKERS recordings run while a further job waits.
C1_Witness ==
    /\ Cardinality({j \in Delivered : jobs[j].pc = "run"}) = MAX_WORKERS
    /\ queue # <<>>

\* C2 (as claimed): a job that was accepted and has ended has forwarded
\* exactly one outcome, and no job ever forwards more than one.
C2_ExactlyOneOutcome ==
    \A j \in Delivered :
        /\ Len(jobs[j].sent) <= 1
        /\ jobs[j].pc \in Terminated => Len(jobs[j].sent) = 1

\* C3: the request thread is never made to wait: a request can be taken
\* whenever callback is not running, and callback can return as soon as it
\* has submitted, whatever the workers and the queue are doing.
C3_CallbackNeverWaits ==
    /\ req = "return" => ENABLED callback_return
    /\ (req = "idle" /\ Len(jobs) < MaxPoolJobs) => ENABLED PoolDeliver

\* C3 witness: the acknowledgment of a job was returned while the job still
\* waits behind MAX_WORKERS running recordings.
C3_Witness ==
    \E j \in Delivered :
        /\ jobs[j].pc = "queued"
        /\ Len(jobs[j].ack) = 1
        /\ Cardinality({k \in Delivered : jobs[k].pc = "run"}) = MAX_WORKERS

\* C4: every well-formed request is taken in: its job is queued (or
\* already with a worker, or ended), never refused, and once callback has
\* returned the caller holds exactly one acknowledgment, with value TRUE.
C4_AcceptanceUnconditional ==
    \A j \in Delivered :
        jobs[j].message \in WellFormed =>
            /\ jobs[j].pc # "refused"
            /\ jobs[j].pc = "queued" => j \in Queued
            /\ \A i \in 1..Len(jobs[j].ack) : jobs[j].ack[i].value = TRUE
            /\ Answered(j) => Len(jobs[j].ack) = 1

\* C4 witness: with MAX_WORKERS jobs holding the workers, the latest
\* request waits in the queue and was acknowledged with TRUE.
C4_Witness ==
    /\ Cardinality(Busy) = MAX_WORKERS
    /\ queue # <<>>
    /\ req = "idle"
    /\ jobs[Len(jobs)].pc = "queued"
    /\ jobs[Len(jobs)].ack # <<>>
    /\ jobs[Len(jobs)].ack[1].value = TRUE

\* C5 (as claimed): a job whose recording process failed, by a non-zero
\* exit or by a failure to launch, and whose URL can be named, has
\* forwarded one outcome with an empty payload when it ends.
C5_FailureForwarded ==
    \A j \in Delivered :
        (/\ jobs[j].exit \in FailedRecording
         /\ ~Unnameable(j)
         /\ jobs[j].pc \in Terminated)
        => (Len(jobs[j].sent) = 1 /\ jobs[j].sent[1].data = <<>>)

\* C6 (as claimed): once a job's recording has failed, every other job that
\* has ended has forwarded its own outcome.
C6_FailureIsolation ==
    \A a \in Delivered, b \in Delivered :
        (/\ a # b
         /\ jobs[a].exit \in FailedRecording
         /\ jobs[b].pc \in Terminated)
        => Len(jobs[b].sent) = 1

\* C7 (as claimed): a request with malformed endpoint fields is never
\* queued, and once callback is over the caller holds an acknowledgment
\* with value FALSE.
C7_ConstructionErrorRefused ==
    \A j \in Delivered :
        jobs[j].message \in Malformed =>
            /\ jobs[j].pc = "refused"
            /\ Answered(j) => (Len(jobs[j].ack) = 1 /\ jobs[j].ack[1].value = FALSE)

\* C8 (as claimed): a request whose URL cannot be named is never
\* acknowledged as accepted and then left without a forwarded outcome: when
\* its job got as far as naming and ended, an outcome was forwarded.
C8_UnnameableNeverLost ==
    \A j \in Delivered :
        (/\ Unnameable(j)
         /\ Len(jobs[j].ack) = 1
         /\ jobs[j].ack[1].value = TRUE
         /\ jobs[j].pc \in Terminated
         /\ jobs[j].exc \notin {"OSError", "FileNotFoundError"})
        => Len(jobs[j].sent) = 1

\* C9 (as claimed): a worker that has sent the upload request does not wait
\* for the answer: a job whose outcome is forwarded holds no worker.
C9_FireAndForget ==
    \A j \in Delivered : Len(jobs[j].sent) = 1 => j \notin Busy

Live == {j \in Delivered : jobs[j].pc \in {"queued"} \cup WorkerPcs}

\* C11: no two jobs that are queued or running share a local output path,
\* also when their requests and URLs are the same, and the local name is
\* the generated one, never the name derived from the URL.
C11_UniqueOutputFile ==
    \A a \in Live :
        /\ \A b \in Live : a # b => jobs[a].output_file # jobs[b].output_file
        /\ jobs[a].output_file = uuid4(a) \o <<".", "m", "k", "v">>
        /\ jobs[a].output_file # NameOf[jobs[a].url].val

\* C11 witness: two jobs of identical requests and URLs record at the same
\* time, each into a file of its own.
C11_Witness ==
    \E a \in Delivered, b \in Delivered :
        /\ a # b
        /\ jobs[a].message = jobs[b].message
        /\ jobs[a].url = jobs[b].url
        /\ jobs[a].pc = "open" /\ jobs[b].pc = "open"
        /\ Exists(jobs[a].output_file) /\ Exists(jobs[b].output_file)
        /\ jobs[a].output_file # jobs[b].output_file

\* C17 (as claimed): a job whose outcome has been forwarded to the upload
\* collaborator has had its acknowledgment returned to the caller.
C17_AckBeforeForward ==
    \A j \in Delivered : jobs[j].sent # <<>> => Len(jobs[j].ack) = 1

\* C18: workers take queued jobs in submission order: the queue holds the
\* waiting jobs oldest first, and a job that was submitted after a job
\* still waiting is itself still waiting (or was never submitted).
C18_FifoStart ==
    /\ \A i \in 1..Len(queue), k \in 1..Len(queue) : i < k => queue[i] < queue[k]
    /\ \A a \in Delivered, b \in Delivered :
          (a < b /\ jobs[a].pc = "queued") => jobs[b].pc \in {"queued", "refused"}

\* C18 witness: completions out of submission order: the later of two
\* acknowledged jobs is done while the earlier one still records.
C18_Witness ==
    \E a \in Delivered, b \in Delivered :
        /\ a < b
        /\ jobs[a].pc = "run"
        /\ jobs[b].pc = "done"
        /\ Len(jobs[a].ack) = 1 /\ Len(jobs[b].ack) = 1

\* C20 (as claimed): the local file of a job that has finished, whether its
\* recording succeeded or failed, no longer exists.
C20_NoFileRemains ==
    \A j \in Delivered :
        (jobs[j].pc \in Terminated /\ jobs[j].exit # "")
        => ~Exists(jobs[j].output_file)

\* C19: every forwarded upload message belongs to one job: its payload is
\* what that job's recording wrote to its own file (empty after a failed
\* recording), its path is the name of that job's URL, and its header is
\* the header of that job's request extended with "upload".
C19_UploadConsistent ==
    \A j \in Delivered :
        \A i \in 1..Len(jobs[j].sent) :
            /\ jobs[j].sent[i].data =
                  (IF jobs[j].exit = "exit0" THEN jobs[j].wrote.val ELSE <<>>)
            /\ jobs[j].url = UrlOf[jobs[j].message].val
            /\ jobs[j].sent[i].path = NameOf[UrlOf[jobs[j].message].val].val
            /\ jobs[j].sent[i].header.entity_path
                  = jobs[j].message.header.entity_path \o <<"/", "upload">>

\* C19 witness: two jobs of different requests and different recordings ran
\* at the same time and each forwarded its own bytes, name and header.
C19_Witness ==
    \E a \in Delivered, b \in Delivered :
        /\ a < b
        /\ jobs[a].pc = "request" /\ jobs[b].pc = "request"
        /\ jobs[a].exit = "exit0" /\ jobs[b].exit = "exit0"
        /\ jobs[a].sent[1].data # jobs[b].sent[1].data
        /\ jobs[a].sent[1].path # jobs[b].sent[1].path
        /\ jobs[a].sent[1].header # jobs[b].sent[1].header

\* An endpoint with a protocol, a host and a port of 16 bits.
ValidEndpoint(e) == e.protocol # <<>> /\ e.host # <<>> /\ e.port \in 0..65535

SameSchemePathQuery(a, b) == a.scheme = b.scheme /\ a.path = b.path /\ a.query = b.query

AuthorityWith(username, password, hostname, port) ==
    username \o <<":">> \o password \o <<"@">> \o hostname.val
      \o (IF ~IsRaise(port) /\ ~port.none /\ port.val # 0
          THEN <<":">> \o IntToStr(port.val) ELSE <<>>)

\* C12 (as claimed): for every URL, user name and password, the URL that
\* insert_credentials returns has the scheme, path and query of the input
\* URL, and the authority username:password@host[:port].
C12_OnlyAuthorityChanges ==
    (calc.pc = "inserted" /\ ~IsRaise(calc.result)) =>
        /\ SameSchemePathQuery(urlparse(calc.url), urlparse(calc.result.val))
        /\ ~Hostname(urlparse(calc.url).netloc).none =>
              urlparse(calc.result.val).netloc
                = AuthorityWith(calc.username, calc.password,
                                Hostname(urlparse(calc.url).netloc),
                                Port(urlparse(calc.url).netloc))

\* A host written in brackets, without them.
Unbracket(h) ==
    IF Len(h) >= 2 /\ h[1] = "[" /\ h[Len(h)] = "]" THEN SubSeq(h, 2, Len(h) - 1) ELSE h

Recovered(netloc, e) ==
    /\ Hostname(netloc) \in {Ok(e.host), Ok(Unbracket(e.host))}
    /\ Port(netloc) = (IF e.port = 0 THEN None ELSE Ok(e.port))

\* C13 (as claimed): for a URL built by build_url from a valid endpoint,
\* insert_credentials returns a URL whose authority, parsed with the
\* credentials stripped, gives back the host and the port of the endpoint.
C13_RoundTrip ==
    (/\ calc.pc = "inserted"
     /\ calc.built
     /\ ValidEndpoint(calc.endpoint)
     /\ <<calc.username, calc.password>> \in PlainCredentials)
    => (/\ ~IsRaise(calc.result)
        /\ Recovered(urlparse(calc.result.val).netloc, calc.endpoint))

\* C14: for a valid endpoint build_url returns protocol://authority/path
\* followed by ?query when there are query parameters: the path starts
\* with "/", the authority is the host when the port is 0 and host:port
\* otherwise, there is no "?" without query parameters, and the query
\* decodes to the parameters of the endpoint.
C14_BuildUrlComposes ==
    (calc.built /\ ValidEndpoint(calc.endpoint)) =>
        /\ calc.url =
              calc.endpoint.protocol \o <<":", "/", "/">>
                \o calc.endpoint.host
                \o (IF calc.endpoint.port = 0 THEN <<>>
                    ELSE <<":">> \o IntToStr(calc.endpoint.port))
                \o (IF calc.endpoint.path # <<>> /\ Head(calc.endpoint.path) = "/"
                    THEN <<>> ELSE <<"/">>)
                \o calc.endpoint.path
                \o (IF calc.endpoint.query_params = <<>> THEN <<>>
                    ELSE <<"?">> \o urlencode(calc.endpoint.query_params))
        /\ calc.endpoint.query_params = <<>>
              => \A i \in 1..Len(calc.url) : calc.url[i] # "?"
        /\ Head(urlparse(calc.url).path) = "/"
        /\ parse_qsl(urlparse(calc.url).query) = calc.endpoint.query_params

\* C14 witness: a path given without "/", port 0 and no query parameters
\* give rtsp://cam/stream1.
C14_Witness ==
    /\ calc.built
    /\ calc.endpoint.path = <<"s", "t", "r", "e", "a", "m", "1">>
    /\ calc.endpoint.port = 0
    /\ calc.endpoint.query_params = <<>>
    /\ calc.url = <<"r", "t", "s", "p", ":", "/", "/", "c", "a", "m", "/",
                     "s", "t", "r", "e", "a", "m", "1">>

\* The value given for a time in the query parameters, None when absent.
GivenTime(times, key) ==
    IF \E i \in 1..Len(times) : times[i][1] = key
    THEN Ok(times[CHOOSE i \in 1..Len(times) : times[i][1] = key][2])
    ELSE None

ExpectedName(segments, starttime, endtime) ==
    IF Len(segments) >= 3 /\ ~starttime.none /\ ~endtime.none
    THEN Ok(segments[3] \o <<"/">> \o starttime.val \o <<"_">> \o endtime.val
              \o <<".", "m", "k", "v">>)
    ELSE Raise("ValueError")

\* C15: transform_url names a URL whose path has the track as third
\* segment and whose query gives starttime and endtime
\* {track}/{starttime}_{endtime}.mkv, and raises ValueError when the path
\* has fewer than three segments or a time is missing.
C15_StructuralNaming ==
    calc.pc = "named" =>
        calc.name = ExpectedName(calc.segments,
                                 GivenTime(calc.times, Str_starttime),
                                 GivenTime(calc.times, Str_endtime))

\* C15 witness: times that need encoding in the query come back as given:
\* T42/1 2_3:4.mkv.
C15_Witness ==
    /\ calc.pc = "named"
    /\ calc.built
    /\ calc.name = Ok(<<"T", "4", "2", "/", "1", " ", "2", "_", "3", ":", "4",
                        ".", "m", "k", "v">>)

\* C16 (as claimed): insert_credentials raises for a URL without a host.
C16_EmptyHostIsError ==
    (calc.pc = "inserted" /\ Hostname(urlparse(calc.url).netloc).none)
    => IsRaise(calc.result)

==========================================================================
